---- MODULE Spec2Model ----
(***************************************************************************)
(* Terminal-Anime-List: the main loop of src/src/xyz.rs (fn main), its     *)
(* navigation state and the key handlers it dispatches to.                 *)
(*                                                                         *)
(* The main thread is modelled step by step: enable_raw_mode, terminal     *)
(* setup, then the loop of terminal.draw and rx.recv with the key match.   *)
(* Spec is the main thread alone: what rx.recv returns is an input, any     *)
(* event the producer thread may have sent, or the receive error.          *)
(* SpecChan runs the producer thread of lines 112-131 and the mpsc channel *)
(* beside it.  The functions main calls but the source file does not       *)
(* define (read_db, the *_at_index mutations) are modelled from spec.md    *)
(* sections 4.3 and 4.4.                                                   *)
(***************************************************************************)
EXTENDS Integers, Sequences, FiniteSets, TLC

\* ------------------------------------------------------------ bounds

\* The stored file holds at most MaxEntries records, anime and manga together.
MaxEntries == 2

\* Width in bits of the modelled usize (the real one has 32 or 64).
UsizeBits == 3

\* The producer thread sends at most MaxSent events in a run of SpecChan.
MaxSent == 2

\* ------------------------------------------------------------ data

UsizeModulus == 2 ^ UsizeBits

UsizeMax == UsizeModulus - 1

\* usize arithmetic of a release build: two's complement wrap-around.
WrappingSub(a, b) == (a - b + UsizeModulus) % UsizeModulus

WrappingAdd(a, b) == (a + b) % UsizeModulus

\* enum MenuItem and its From<MenuItem> for usize.
MenuItems == {"Anime", "Manga"}

MenuItemTag(m) == IF m = "Anime" THEN 0 ELSE 1

\* enum CategoryItem in declaration order; From<CategoryItem> for usize is
\* the position in this sequence, counted from 0.
CategoryItems == <<"All", "Watching", "Completed", "OnHold", "Dropped", "PlanToWatch">>

NumCategories == Len(CategoryItems)

CategoryTag(c) == CHOOSE t \in 0..(NumCategories - 1) : CategoryItems[t + 1] = c

\* The tags that stand for a variant of CategoryItem.
ValidTag(t) == t \in 0..(NumCategories - 1)

\* The values Anime.status takes in the stored records of this model.
StoredStatuses == {"Watching", "Completed"}

\* The values Anime.episodes takes in the stored records of this model.
EpisodeCounts == {1}

\* struct Anime, cut to the fields the handlers read or change; watched stays
\* within episodes (spec.md 3, the clamp policy of 4.3).
Entries ==
    {e \in [status : StoredStatuses, episodes : EpisodeCounts,
            watched : 0..(CHOOSE n \in EpisodeCounts : \A k \in EpisodeCounts : k <= n)] :
        e.watched <= e.episodes}

\* ListState.selected: Option<usize> as a set with at most one element.
None == {}

Some(i) == {i}

Unwrap(o) == CHOOSE i \in o : TRUE

\* enum Event<I> with the key codes the match tells apart; "other" is any
\* key of the default arm.
Keys == {"a", "m", "e", "q", "+", "-", "Left", "Right", "Up", "Down", "other"}

Events == Keys \cup {"Tick"}

VARIABLES
    pc,                     \* where the main thread is
    raw_mode,               \* the terminal's raw input mode
    overflow_checks,        \* the build: TRUE panics on overflow, FALSE wraps
    active_menu_item,
    active_category_item,   \* the category's usize tag
    anime_list_state,
    manga_list_state,
    store,                  \* the stored records, per list kind
    event,                  \* the event this loop iteration received
    panic_msg,              \* the message of the expect that panicked
    producer,               \* where the producer thread is
    polled,                 \* what event::poll gave last: the producer's branch
    tick_due,               \* last_tick.elapsed() >= tick_rate
    chan,                   \* the events in the mpsc channel, oldest first
    sent,                   \* every event tx.send accepted, in order
    received                \* every event rx.recv returned, in order

vars == <<pc, raw_mode, overflow_checks, active_menu_item, active_category_item,
          anime_list_state, manga_list_state, store, event, panic_msg,
          producer, polled, tick_due, chan, sent, received>>

\* The producer thread's own state.
prod == <<producer, polled, tick_due, sent>>

\* The channel as the main thread sees it.
chanv == <<chan, received>>

nav == <<active_menu_item, active_category_item, anime_list_state, manga_list_state>>

\* ------------------------------------------------------------ store

SeqsUpTo(n) == UNION {[1..k -> Entries] : k \in 0..n}

\* The stores a file of at most MaxEntries records can hold.
Stores ==
    {s \in [Anime : SeqsUpTo(MaxEntries), Manga : SeqsUpTo(MaxEntries)] :
        Len(s.Anime) + Len(s.Manga) <= MaxEntries}

\* read_db(): the records of the file, as one array.
ReadDb == store.Anime \o store.Manga

\* Whether an entry shows under the category with tag t: every entry under
\* All, the entries of that status under a status category, none under a tag
\* that is no category.
Matches(e, t) ==
    \/ t = CategoryTag("All")
    \/ ValidTag(t) /\ e.status = CategoryItems[t + 1]

\* The store positions of a list's entries that show under tag t, in order.
RECURSIVE FilteredFrom(_, _, _)
FilteredFrom(list, t, i) ==
    IF i > Len(list) THEN <<>>
    ELSE (IF Matches(list[i], t) THEN <<i>> ELSE <<>>) \o FilteredFrom(list, t, i + 1)

FilteredPositions(kind, t) == FilteredFrom(store[kind], t, 1)

\* The filtered view's length for a list under the active category.
FilteredLen(kind) == Len(FilteredPositions(kind, active_category_item))

RemoveAt(list, p) == SubSeq(list, 1, p - 1) \o SubSeq(list, p + 1, Len(list))

ListStateOf(kind) == IF kind = "Anime" THEN anime_list_state ELSE manga_list_state

\* ------------------------------------------------------------ main

Init ==
    /\ pc = "start"
    /\ raw_mode = FALSE
    /\ overflow_checks \in BOOLEAN
    /\ active_menu_item = "Anime"
    /\ active_category_item = CategoryTag("All")
    /\ anime_list_state = Some(0)
    /\ manga_list_state = Some(0)
    /\ store \in Stores
    /\ event = "none"
    /\ panic_msg = ""
    /\ producer = "summarised"
    /\ polled = "none"
    /\ tick_due = FALSE
    /\ chan = <<>>
    /\ sent = <<>>
    /\ received = <<>>

\* The main thread panics: the process ends at once, nothing else runs.
Panic(msg) ==
    /\ pc' = "panicked"
    /\ panic_msg' = msg

\* main returns Err through a `?`.
ReturnErr ==
    /\ pc' = "exited"
    /\ UNCHANGED panic_msg

\* enable_raw_mode().expect("can run in raw mode"), then mpsc::channel() and
\* thread::spawn of the producer (last_tick = Instant::now()).
EnableRawMode ==
    /\ pc = "start"
    /\ \E ok \in BOOLEAN :
        IF ok THEN /\ raw_mode' = TRUE
                   /\ pc' = "setup"
                   /\ producer' = (IF producer = "unspawned" THEN "poll" ELSE producer)
                   /\ UNCHANGED panic_msg
        ELSE /\ Panic("can run in raw mode")
             /\ UNCHANGED <<raw_mode, producer>>
    /\ UNCHANGED <<overflow_checks, nav, store, event, polled, tick_due, sent, chanv>>

\* Terminal::new(backend)?, terminal.clear()? and the initial navigation state.
Setup ==
    /\ pc = "setup"
    /\ \E ok \in BOOLEAN :
        IF ok THEN /\ pc' = "draw"
                   /\ active_menu_item' = "Anime"
                   /\ active_category_item' = CategoryTag("All")
                   /\ anime_list_state' = Some(0)
                   /\ manga_list_state' = Some(0)
                   /\ UNCHANGED panic_msg
        ELSE /\ ReturnErr
             /\ UNCHANGED nav
    /\ UNCHANGED <<raw_mode, overflow_checks, store, event, prod, chanv>>

\* terminal.draw(..)?: renders the state; the event of the iteration before
\* is gone.
Draw ==
    /\ pc = "draw"
    /\ \E ok \in BOOLEAN :
        IF ok THEN pc' = "recv" /\ UNCHANGED panic_msg
        ELSE ReturnErr
    /\ event' = "none"
    /\ UNCHANGED <<raw_mode, overflow_checks, nav, store, prod, chanv>>

\* A variant of the loop that waits for the next event without drawing.
Continue_SkipsDraw ==
    /\ pc' = "recv"
    /\ UNCHANGED panic_msg

\* The main loop goes on to its next iteration.
Continue ==
    /\ pc' = "draw"
    /\ UNCHANGED panic_msg

\* result.expect(msg): goes on with Ok, panics with any Err.
Expect(result, msg) ==
    IF result = "Ok" THEN Continue ELSE Panic(msg)

\* The list a list-specific handler works on: its test is
\* `active_category_item == Anime`, a comparison of the category with
\* MenuItem::Anime, modelled on the usize tags.
HandlerList ==
    IF active_category_item = MenuItemTag("Anime") THEN "Anime" ELSE "Manga"

\* list_state.select(v) on the list state of `kind`.
Select(kind, v) ==
    IF kind = "Anime"
    THEN anime_list_state' = v /\ UNCHANGED manga_list_state
    ELSE manga_list_state' = v /\ UNCHANGED anime_list_state

\* Whether a - b, a + b leave the range of usize.
SubOverflows(a, b) == a < b

AddOverflows(a, b) == a + b > UsizeMax

\* ------------------------------------------------------------ mutations

\* Whether the list state of `kind` selects an entry of the filtered view.
Targets(kind) ==
    /\ ListStateOf(kind) # None
    /\ Unwrap(ListStateOf(kind)) < FilteredLen(kind)

\* The store position the selection of `kind` stands for.
TargetPosition(kind) ==
    FilteredPositions(kind, active_category_item)[Unwrap(ListStateOf(kind)) + 1]

\* The selection after the filtered view's length became newLen.
Clamp(old, newLen) ==
    IF newLen = 0 THEN None
    ELSE Some(IF old < newLen - 1 THEN old ELSE newLen - 1)

FilteredLenIn(list, t) == Len(FilteredFrom(list, t, 1))

\* edit_anime_at_index / edit_manga_at_indec: Edit(new_fields).
EditAtIndex(kind, result) ==
    IF ~Targets(kind)
    THEN /\ result = "NotFound"
         /\ UNCHANGED <<store, anime_list_state, manga_list_state>>
    ELSE \/ /\ result = "Ok"
            /\ \E status \in StoredStatuses :
                LET list == [store[kind] EXCEPT ![TargetPosition(kind)].status = status]
                IN  /\ store' = [store EXCEPT ![kind] = list]
                    /\ Select(kind, Clamp(Unwrap(ListStateOf(kind)),
                                          FilteredLenIn(list, active_category_item)))
         \/ /\ result = "PersistError"
            /\ UNCHANGED <<store, anime_list_state, manga_list_state>>

\* remove_anime_at_index / remove_manga_at_indec: Remove().
RemoveAtIndex(kind, result) ==
    IF ~Targets(kind)
    THEN /\ result = "NotFound"
         /\ UNCHANGED <<store, anime_list_state, manga_list_state>>
    ELSE \/ /\ result = "Ok"
            /\ store' = [store EXCEPT ![kind] = RemoveAt(@, TargetPosition(kind))]
            /\ Select(kind, Clamp(Unwrap(ListStateOf(kind)), FilteredLen(kind) - 1))
         \/ /\ result = "PersistError"
            /\ UNCHANGED <<store, anime_list_state, manga_list_state>>

\* add_episode_at_index / add_book_at_index: IncrementProgress(), clamped at
\* the entry's episodes.
AddAtIndex(kind, result) ==
    IF ~Targets(kind)
    THEN /\ result = "NotFound"
         /\ UNCHANGED <<store, anime_list_state, manga_list_state>>
    ELSE \/ /\ result = "Ok"
            /\ store' = [store EXCEPT ![kind][TargetPosition(kind)] =
                            [@ EXCEPT !.watched = IF @ < store[kind][TargetPosition(kind)].episodes
                                                  THEN @ + 1 ELSE @]]
            /\ UNCHANGED <<anime_list_state, manga_list_state>>
         \/ /\ result = "PersistError"
            /\ UNCHANGED <<store, anime_list_state, manga_list_state>>

\* remove_episode_at_index / remove_book_at_index: DecrementProgress().
SubAtIndex(kind, result) ==
    IF ~Targets(kind)
    THEN /\ result = "NotFound"
         /\ UNCHANGED <<store, anime_list_state, manga_list_state>>
    ELSE \/ /\ result = "Ok"
            /\ store' = [store EXCEPT ![kind][TargetPosition(kind)].watched =
                            IF @ > 0 THEN @ - 1 ELSE 0]
            /\ UNCHANGED <<anime_list_state, manga_list_state>>
         \/ /\ result = "PersistError"
            /\ UNCHANGED <<store, anime_list_state, manga_list_state>>

Results == {"Ok", "NotFound", "PersistError"}

\* ------------------------------------------------------------ handlers

\* tx.send(ev) on the unbounded channel: the event joins the queue's end.
Send(ev) ==
    /\ chan' = Append(chan, ev)
    /\ sent' = Append(sent, ev)

\* A variant of rx.recv that hands out the newest event of the queue.
RecvFrom_Newest(ev) ==
    /\ chan # <<>>
    /\ ev = chan[Len(chan)]
    /\ chan' = SubSeq(chan, 1, Len(chan) - 1)
    /\ received' = Append(received, ev)

\* rx.recv() with an event queued: it hands out the oldest one.
RecvFrom(ev) ==
    /\ chan # <<>>
    /\ ev = Head(chan)
    /\ chan' = Tail(chan)
    /\ received' = Append(received, ev)

\* rx.recv()? gave Event::Input with this key code, or Event::Tick: from the
\* channel where the producer thread runs, as an input where it is summarised.
Received(ev) ==
    /\ pc = "recv"
    /\ event' = ev
    /\ IF producer = "summarised" THEN UNCHANGED chanv ELSE RecvFrom(ev)
    /\ UNCHANGED <<raw_mode, overflow_checks, prod>>

\* A variant of rx.recv that keeps waiting on an empty channel whose sender
\* is gone.
RecvErr_Blocks ==
    /\ pc = "recv"
    /\ producer = "summarised"
    /\ ReturnErr
    /\ UNCHANGED <<raw_mode, overflow_checks, nav, store, event, prod, chanv>>

\* rx.recv()? gave Err: the producer thread is gone (tx dropped) and the
\* channel is empty.
RecvErr ==
    /\ pc = "recv"
    /\ producer = "summarised" \/ (producer = "dead" /\ chan = <<>>)
    /\ ReturnErr
    /\ UNCHANGED <<raw_mode, overflow_checks, nav, store, event, prod, chanv>>

\* KeyCode::Char('a') => active_menu_item = MenuItem::Anime
KeyA ==
    /\ Received("a")
    /\ active_menu_item' = "Anime"
    /\ Continue
    /\ UNCHANGED <<active_category_item, anime_list_state, manga_list_state, store>>

\* A variant of the 'm' arm that also puts the Manga list's cursor back on
\* its first entry.
KeyM_ResetsSelection ==
    /\ Received("m")
    /\ active_menu_item' = "Manga"
    /\ manga_list_state' = Some(0)
    /\ Continue
    /\ UNCHANGED <<active_category_item, anime_list_state, store>>

\* KeyCode::Char('m') => active_menu_item = MenuItem::Manga
KeyM ==
    /\ Received("m")
    /\ active_menu_item' = "Manga"
    /\ Continue
    /\ UNCHANGED <<active_category_item, anime_list_state, manga_list_state, store>>

\* KeyCode::Char('e')
KeyE ==
    /\ Received("e")
    /\ \E result \in Results :
        /\ EditAtIndex(HandlerList, result)
        /\ Expect(result, IF HandlerList = "Anime" THEN "can edit anime entry"
                          ELSE "can edit manga entry")
    /\ UNCHANGED <<active_menu_item, active_category_item>>

\* KeyCode::Char('q')
KeyQ ==
    /\ Received("q")
    /\ \E result \in Results :
        /\ RemoveAtIndex(HandlerList, result)
        /\ Expect(result, IF HandlerList = "Anime" THEN "can remove anime entry"
                          ELSE "can remove manga entry")
    /\ UNCHANGED <<active_menu_item, active_category_item>>

\* KeyCode::Char('+')
KeyPlus ==
    /\ Received("+")
    /\ \E result \in Results :
        /\ AddAtIndex(HandlerList, result)
        /\ Expect(result, IF HandlerList = "Anime" THEN "can add episode of anime"
                          ELSE "can add book of manga")
    /\ UNCHANGED <<active_menu_item, active_category_item>>

\* KeyCode::Char('-')
KeyMinus ==
    /\ Received("-")
    /\ \E result \in Results :
        /\ SubAtIndex(HandlerList, result)
        /\ Expect(result, IF HandlerList = "Anime" THEN "can remove episode of anime"
                          ELSE "can remove book of manga")
    /\ UNCHANGED <<active_menu_item, active_category_item>>

\* KeyCode::Left => active_category_item = CategoryItem::-1: the tag less one,
\* with no wrap to the last category; below 0 it is a usize overflow.
KeyLeft ==
    /\ Received("Left")
    /\ IF SubOverflows(active_category_item, 1) /\ overflow_checks
       THEN /\ Panic("attempt to subtract with overflow")
            /\ UNCHANGED active_category_item
       ELSE /\ active_category_item' = WrappingSub(active_category_item, 1)
            /\ Continue
    /\ UNCHANGED <<active_menu_item, anime_list_state, manga_list_state, store>>

\* KeyCode::Right => active_category_item = CategoryItem::+1: the tag plus one,
\* with no wrap to All.
KeyRight ==
    /\ Received("Right")
    /\ IF AddOverflows(active_category_item, 1) /\ overflow_checks
       THEN /\ Panic("attempt to add with overflow")
            /\ UNCHANGED active_category_item
       ELSE /\ active_category_item' = WrappingAdd(active_category_item, 1)
            /\ Continue
    /\ UNCHANGED <<active_menu_item, anime_list_state, manga_list_state, store>>

FetchMsg(kind) ==
    IF kind = "Anime" THEN "can fetch anime list" ELSE "can fetch manga list"

\* The Down arm on the list state of `kind`, given the stored array's length.
DownOn(kind, amount) ==
    LET selected == Unwrap(ListStateOf(kind))
    IN  IF SubOverflows(amount, 1) /\ overflow_checks
        THEN /\ Panic("attempt to subtract with overflow")
             /\ UNCHANGED <<anime_list_state, manga_list_state>>
        ELSE /\ IF selected >= WrappingSub(amount, 1)
                THEN Select(kind, Some(0))
                ELSE Select(kind, Some(selected + 1))
             /\ Continue

\* KeyCode::Down
KeyDown ==
    /\ Received("Down")
    /\ IF ListStateOf(HandlerList) = None
       THEN /\ Continue
            /\ UNCHANGED <<anime_list_state, manga_list_state>>
       ELSE \E read_ok \in BOOLEAN :
            IF read_ok
            THEN DownOn(HandlerList, Len(ReadDb))
            ELSE /\ Panic(FetchMsg(HandlerList))
                 /\ UNCHANGED <<anime_list_state, manga_list_state>>
    /\ UNCHANGED <<active_menu_item, active_category_item, store>>

\* The Up arm on the list state of `kind`, given the stored array's length.
UpOn(kind, amount) ==
    LET selected == Unwrap(ListStateOf(kind))
    IN  IF selected > 0
        THEN /\ Select(kind, Some(selected - 1))
             /\ Continue
        ELSE IF SubOverflows(amount, 1) /\ overflow_checks
             THEN /\ Panic("attempt to subtract with overflow")
                  /\ UNCHANGED <<anime_list_state, manga_list_state>>
             ELSE /\ Select(kind, Some(WrappingSub(amount, 1)))
                  /\ Continue

\* KeyCode::Up
KeyUp ==
    /\ Received("Up")
    /\ IF ListStateOf(HandlerList) = None
       THEN /\ Continue
            /\ UNCHANGED <<anime_list_state, manga_list_state>>
       ELSE \E read_ok \in BOOLEAN :
            IF read_ok
            THEN UpOn(HandlerList, Len(ReadDb))
            ELSE /\ Panic(FetchMsg(HandlerList))
                 /\ UNCHANGED <<anime_list_state, manga_list_state>>
    /\ UNCHANGED <<active_menu_item, active_category_item, store>>

\* _ => {}: any other key.
KeyOther ==
    /\ Received("other")
    /\ Continue
    /\ UNCHANGED <<nav, store>>

\* A variant of the Tick arm that moves the active list's cursor to the top.
Tick_MovesCursor ==
    /\ Received("Tick")
    /\ Continue
    /\ Select(active_menu_item, Some(0))
    /\ UNCHANGED <<active_menu_item, active_category_item, store>>

\* Event::Tick => {}
Tick ==
    /\ Received("Tick")
    /\ Continue
    /\ UNCHANGED <<nav, store>>

Next ==
    \/ EnableRawMode
    \/ Setup
    \/ Draw
    \/ RecvErr
    \/ KeyA
    \/ KeyM
    \/ KeyE
    \/ KeyQ
    \/ KeyPlus
    \/ KeyMinus
    \/ KeyLeft
    \/ KeyRight
    \/ KeyDown
    \/ KeyUp
    \/ KeyOther
    \/ Tick

Spec == Init /\ [][Next]_vars

\* ------------------------------------------------------------ producer

\* The producer thread runs: it was spawned, has not panicked, and the
\* process has not ended with the main thread.
ProducerRuns(at) ==
    /\ producer = at
    /\ pc \notin {"exited", "panicked"}

\* Time goes by: the tick interval since last_tick has elapsed.
TimePasses ==
    /\ producer \in {"poll", "check"}
    /\ pc \notin {"exited", "panicked"}
    /\ ~tick_due
    /\ tick_due' = TRUE
    /\ UNCHANGED <<pc, raw_mode, overflow_checks, nav, store, event, panic_msg,
                   producer, polled, sent, chanv>>

\* A variant of the key branch that reaches into the main thread's state.
PollKey_SwitchesList ==
    /\ ProducerRuns("poll")
    /\ Len(sent) < MaxSent
    /\ \E key \in Keys :
        /\ Send(key)
        /\ active_menu_item' = (IF key = "m" THEN "Manga" ELSE active_menu_item)
    /\ polled' = "key"
    /\ producer' = "check"
    /\ UNCHANGED <<pc, raw_mode, overflow_checks, active_category_item,
                   anime_list_state, manga_list_state, store, event, panic_msg,
                   tick_due, received>>

\* A variant of the key branch that restarts the tick clock.
PollKey_ResetsClock ==
    /\ ProducerRuns("poll")
    /\ Len(sent) < MaxSent
    /\ \E key \in Keys : Send(key)
    /\ polled' = "key"
    /\ producer' = "check"
    /\ tick_due' = FALSE
    /\ UNCHANGED <<pc, raw_mode, overflow_checks, nav, store, event, panic_msg,
                   received>>

\* event::poll(timeout) gave true, event::read() a key: tx.send(Event::Input(key)).
PollKey ==
    /\ ProducerRuns("poll")
    /\ Len(sent) < MaxSent
    /\ \E key \in Keys : Send(key)
    /\ polled' = "key"
    /\ producer' = "check"
    /\ UNCHANGED <<pc, raw_mode, overflow_checks, nav, store, event, panic_msg,
                   tick_due, received>>

\* event::poll(timeout) gave true, event::read() an event that is no key:
\* nothing is sent.
PollOther ==
    /\ ProducerRuns("poll")
    /\ polled' = "other"
    /\ producer' = "check"
    /\ UNCHANGED <<pc, raw_mode, overflow_checks, nav, store, event, panic_msg,
                   tick_due, sent, chanv>>

\* event::poll(timeout) gave false: the timeout, what was left of the tick
\* interval, went by with no event.
PollTimeout ==
    /\ ProducerRuns("poll")
    /\ tick_due
    /\ polled' = "timeout"
    /\ producer' = "check"
    /\ UNCHANGED <<pc, raw_mode, overflow_checks, nav, store, event, panic_msg,
                   tick_due, sent, chanv>>

\* event::poll or event::read gave Err: the expect panics the producer
\* thread, which drops tx.
PollFails ==
    /\ ProducerRuns("poll")
    /\ producer' = "dead"
    /\ UNCHANGED <<pc, raw_mode, overflow_checks, nav, store, event, panic_msg,
                   polled, tick_due, sent, chanv>>

\* A variant of the tick test that skips the Tick of an iteration that sent
\* an Input.
CheckTick_OnlyAfterTimeout ==
    /\ ProducerRuns("check")
    /\ IF tick_due /\ polled # "key"
       THEN /\ Len(sent) < MaxSent
            /\ Send("Tick")
            /\ tick_due' = FALSE
       ELSE UNCHANGED <<tick_due, chan, sent>>
    /\ producer' = "poll"
    /\ UNCHANGED <<pc, raw_mode, overflow_checks, nav, store, event, panic_msg,
                   polled, received>>

\* if last_tick.elapsed() >= tick_rate { if let Ok(_) = tx.send(Event::Tick)
\* { last_tick = Instant::now() } }, the end of a producer iteration.
CheckTick ==
    /\ ProducerRuns("check")
    /\ IF tick_due
       THEN /\ Len(sent) < MaxSent
            /\ Send("Tick")
            /\ tick_due' = FALSE
       ELSE UNCHANGED <<tick_due, chan, sent>>
    /\ producer' = "poll"
    /\ UNCHANGED <<pc, raw_mode, overflow_checks, nav, store, event, panic_msg,
                   polled, received>>

\* The store SpecChan starts from: one anime being watched with no episode
\* seen yet, and no manga.
ChanStores ==
    {s \in Stores :
        /\ Len(s.Manga) = 0
        /\ Len(s.Anime) = 1
        /\ \A i \in 1..Len(s.Anime) :
              s.Anime[i].status = "Watching" /\ s.Anime[i].watched = 0}

InitChan ==
    /\ pc = "start"
    /\ raw_mode = FALSE
    /\ overflow_checks \in BOOLEAN
    /\ active_menu_item = "Anime"
    /\ active_category_item = CategoryTag("All")
    /\ anime_list_state = Some(0)
    /\ manga_list_state = Some(0)
    /\ store \in ChanStores
    /\ event = "none"
    /\ panic_msg = ""
    /\ producer = "unspawned"
    /\ polled = "none"
    /\ tick_due = FALSE
    /\ chan = <<>>
    /\ sent = <<>>
    /\ received = <<>>

\* A step of the main thread.
MainNext == Next

\* A step of the producer thread, or of its clock.
ProducerNext ==
    \/ TimePasses
    \/ PollKey
    \/ PollOther
    \/ PollTimeout
    \/ PollFails
    \/ CheckTick

NextChan == MainNext \/ ProducerNext

SpecChan == InitChan /\ [][NextChan]_vars

\* The main thread keeps running while it has a step to take.
SpecChanFair == SpecChan /\ WF_vars(MainNext)

\* ------------------------------------------------------------ types

TypeOK ==
    /\ pc \in {"start", "setup", "draw", "recv", "exited", "panicked"}
    /\ raw_mode \in BOOLEAN
    /\ overflow_checks \in BOOLEAN
    /\ active_menu_item \in MenuItems
    /\ active_category_item \in 0..UsizeMax
    /\ anime_list_state \in {None} \cup {Some(i) : i \in 0..UsizeMax}
    /\ manga_list_state \in {None} \cup {Some(i) : i \in 0..UsizeMax}
    /\ store \in Stores
    /\ event \in Events \cup {"none"}
    /\ producer \in {"summarised", "unspawned", "poll", "check", "dead"}
    /\ polled \in {"none", "key", "other", "timeout"}
    /\ tick_due \in BOOLEAN
    /\ chan \in Seq(Events)
    /\ sent \in Seq(Events)
    /\ received \in Seq(Events)

\* ------------------------------------------------------------ claims

\* The main loop is running: between its iterations or waiting in rx.recv.
InLoop == pc \in {"draw", "recv"}

\* The loop has stopped: main returned an error or panicked.
Stopped == pc \in {"exited", "panicked"}

\* The loop consumes event ev in this step.
Consumes(ev) == pc = "recv" /\ event' = ev

\* A selection that fits a filtered view of length len.
ValidSelection(sel, len) ==
    IF sel = None THEN len = 0 ELSE Unwrap(sel) < len

\* C1: in every state of the main loop, each list's selected index is a valid
\* index into that list's filtered sequence, or None and the sequence empty.
C1_SelectionAlwaysValid ==
    InLoop =>
        \A kind \in MenuItems : ValidSelection(ListStateOf(kind), FilteredLen(kind))

\* The arm of the key match that a key code takes.
KeyArm(k) ==
    CASE k = "a" -> KeyA
      [] k = "m" -> KeyM
      [] k = "e" -> KeyE
      [] k = "q" -> KeyQ
      [] k = "+" -> KeyPlus
      [] k = "-" -> KeyMinus
      [] k = "Left" -> KeyLeft
      [] k = "Right" -> KeyRight
      [] k = "Down" -> KeyDown
      [] k = "Up" -> KeyUp
      [] OTHER -> KeyOther

\* C2: there is a quit key, one whose consumption stops the loop: so in every
\* state where the loop waits for an event, some key cannot be consumed with
\* the loop going on to its next iteration.
C2_QuitKeyStopsLoop ==
    pc = "recv" => \E quit \in Keys : ~ENABLED (KeyArm(quit) /\ InLoop')

\* C3: raw mode is on while the loop runs, and off once the loop has stopped,
\* by whichever path.
C3_RawModeRestoredOnExit ==
    /\ InLoop => raw_mode
    /\ Stopped => ~raw_mode

\* C4: consuming 'a' or 'm' sets active_menu_item and leaves the category,
\* both list states and the store as they were; the loop goes on.
C4_ListSwitchChangesOnlyActiveList ==
    [][Consumes("a") \/ Consumes("m") =>
        /\ active_menu_item' = (IF event' = "a" THEN "Anime" ELSE "Manga")
        /\ UNCHANGED <<active_category_item, anime_list_state, manga_list_state, store>>
        /\ InLoop']_vars

\* C4's case: the loop has switched to the Manga list while the Anime list's
\* selection was off its default and an entry was stored.
C4_Witness ==
    /\ pc = "draw"
    /\ event = "m"
    /\ active_menu_item = "Manga"
    /\ anime_list_state = Some(1)
    /\ Len(store.Anime) = 2

\* C5: Left and Right move the category one place back and forth through the
\* six categories, wrapping at both ends, and the result is a category.
C5_CategoryCycles ==
    [][/\ (Consumes("Left") \/ Consumes("Right"))
       /\ ValidTag(active_category_item)
       =>
       /\ InLoop'
       /\ ValidTag(active_category_item')
       /\ active_category_item' =
            (IF event' = "Left"
             THEN (active_category_item + NumCategories - 1) % NumCategories
             ELSE (active_category_item + 1) % NumCategories)]_vars

\* C6: when Left or Right changes the category to another category, the
\* active list's selection (a valid one before) is clamped in the same step to
\* the new filtered view: min(old, len - 1), or None when the view is empty.
C6_CategoryChangeReclamps ==
    [][/\ (Consumes("Left") \/ Consumes("Right"))
       /\ InLoop'
       /\ active_category_item' # active_category_item
       /\ ValidTag(active_category_item')
       /\ Targets(active_menu_item)
       =>
       LET kind == active_menu_item
           newLen == Len(FilteredPositions(kind, active_category_item'))
       IN  (IF kind = "Anime" THEN anime_list_state' ELSE manga_list_state')
             = Clamp(Unwrap(ListStateOf(kind)), newLen)]_vars

\* C7: with the active list's filtered view of length L > 0 and a valid
\* selection i, a Down the loop survives moves the active list's selection to
\* (i + 1) mod L.
C7_CursorDownWraps ==
    [][/\ Consumes("Down")
       /\ InLoop'
       /\ Targets(active_menu_item)
       =>
       LET kind == active_menu_item
       IN  (IF kind = "Anime" THEN anime_list_state' ELSE manga_list_state')
             = Some((Unwrap(ListStateOf(kind)) + 1) % FilteredLen(kind))]_vars

\* C8: after 'q' removed the selected entry of the active list, that list's
\* selection is None if the entry was the only one of the filtered view, and
\* min(old, new length - 1) otherwise.
C8_RemoveReclamps ==
    [][/\ Consumes("q")
       /\ InLoop'
       /\ Targets(active_menu_item)
       =>
       LET kind == active_menu_item
       IN  /\ Len(store'[kind]) = Len(store[kind]) - 1
           /\ (IF kind = "Anime" THEN anime_list_state' ELSE manga_list_state')
                = Clamp(Unwrap(ListStateOf(kind)), FilteredLen(kind) - 1)]_vars

\* C9: a mutation key whose operation fails does not stop the loop: after
\* 'e', 'q', '+' or '-' the loop goes on, and where nothing was selected
\* the store is as it was.
C9_MutationFailureRecoverable ==
    [][Consumes("e") \/ Consumes("q") \/ Consumes("+") \/ Consumes("-") =>
        /\ InLoop'
        /\ ~Targets(HandlerList) => UNCHANGED store]_vars

\* C10: a navigation key never stops the loop, whatever the state; on an
\* empty list Up and Down change nothing.
C10_NavigationNeverFails ==
    [][\/ Consumes("a") \/ Consumes("m") \/ Consumes("Left")
       \/ Consumes("Right") \/ Consumes("Up") \/ Consumes("Down")
       =>
       /\ InLoop'
       /\ (event' \in {"Up", "Down"} /\ FilteredLen(active_menu_item) = 0)
            => UNCHANGED <<nav, store>>]_vars

\* ------------------------------------------------------------ channel claims

IsPrefix(a, b) == Len(a) <= Len(b) /\ SubSeq(b, 1, Len(a)) = a

\* C11: under every interleaving of the two threads, the events the main loop
\* received are a prefix of the events the producer sent, in the same order,
\* and the rest of them, each once, is what the channel still holds.
C11_ChannelFifoNoLoss ==
    /\ IsPrefix(received, sent)
    /\ sent = received \o chan

\* C11's case: the main loop lagged two events behind and then received both.
C11_Witness ==
    /\ Len(received) = 2
    /\ received[1] # received[2]
    /\ chan = <<>>

\* C12: once the producer thread has died of a failed poll or read, the main
\* loop ends: it consumes what is queued and then stops.
C12_ProducerFailureEndsMain ==
    (producer = "dead") ~> Stopped

\* C12's case: the producer died, the main loop received an event that was
\* queued and then returned the receive error.
C12_Witness ==
    /\ producer = "dead"
    /\ pc = "exited"
    /\ event = "none"
    /\ Len(received) >= 1

\* ------------------------------------------------------------ more claims

\* The state the first draw renders: set up, no event consumed yet.
FirstDraw == pc = "draw" /\ event = "none"

\* C13: the initial navigation state is the Anime list, category All, and per
\* list index 0 if the list has entries and None if it has none.
C13_InitialNavigationState ==
    FirstDraw =>
        /\ active_menu_item = "Anime"
        /\ active_category_item = CategoryTag("All")
        /\ \A kind \in MenuItems :
            ListStateOf(kind) = (IF Len(store[kind]) = 0 THEN None ELSE Some(0))

OtherList(kind) == IF kind = "Anime" THEN "Manga" ELSE "Anime"

\* The loop consumes a key that works on one list.
ConsumesListKey ==
    \/ Consumes("e") \/ Consumes("q") \/ Consumes("+")
    \/ Consumes("-") \/ Consumes("Up") \/ Consumes("Down")

\* C14: a key that works on one list works on the active one: the entries and
\* the selection of the list that is not active stay as they were.
C14_ListKeysActOnActiveList ==
    [][ConsumesListKey =>
        LET other == OtherList(active_menu_item)
        IN  /\ store'[other] = store[other]
            /\ (IF other = "Anime" THEN anime_list_state' ELSE manga_list_state')
                 = ListStateOf(other)]_vars

\* The producer sends a Tick, an Input, in this step.
TickSent == Len(sent') = Len(sent) + 1 /\ sent'[Len(sent')] = "Tick"

InputSent == Len(sent') = Len(sent) + 1 /\ sent'[Len(sent')] \in Keys

\* The tick clock is restarted in this step.
ClockReset == tick_due /\ ~tick_due'

\* C15 as claimed: an Input never restarts the tick clock, the clock restarts
\* exactly when a Tick is sent, and a Tick is sent only by an iteration whose
\* wait timed out, never by one that sent an Input.
C15_TickOnlyAfterTimeout ==
    [][/\ InputSent => UNCHANGED tick_due
       /\ ClockReset <=> TickSent
       /\ TickSent => polled = "timeout"]_vars

\* C15 as amended: an Input never restarts the tick clock, the clock restarts
\* exactly when a Tick is sent, and a Tick is sent only at the end of an
\* iteration with the tick interval elapsed, whatever its wait gave.
C15_TickOnlyWhenIntervalElapsed ==
    [][/\ InputSent => UNCHANGED tick_due
       /\ ClockReset <=> TickSent
       /\ TickSent => (tick_due /\ producer = "check" /\ producer' = "poll")]_vars

\* C15's case: an iteration whose wait timed out has sent a Tick and restarted
\* the clock, after an Input that left the clock alone.
C15_Witness ==
    /\ Len(sent) = 2
    /\ sent[1] \in Keys
    /\ sent[2] = "Tick"
    /\ polled = "timeout"
    /\ producer = "poll"
    /\ ~tick_due

\* C16: an event is consumed only from a state that was rendered since the
\* event before, its handler ends the iteration, and between two events the
\* loop does nothing but the one draw, which changes no state.
C16_OneEventThenOneRender ==
    [][/\ (pc = "recv" /\ event' \in Events) => (event = "none" /\ pc' # "recv")
       /\ pc = "draw" => (pc' \in {"recv", "exited"} /\ UNCHANGED <<nav, store>>)
       /\ pc' = "recv" => pc = "draw"]_vars

\* C16's case: an event was handled, the resulting state rendered, and the
\* loop waits for the next event.
C16_Witness ==
    /\ pc = "recv"
    /\ event = "none"
    /\ active_menu_item = "Manga"
    /\ active_category_item = CategoryTag("Watching")

\* C17: a Tick, and a key that no arm names, change neither the navigation
\* state nor the store, and the loop goes on.
C17_TickAndOtherKeysChangeNothing ==
    [][Consumes("Tick") \/ Consumes("other") =>
        UNCHANGED <<nav, store>> /\ InLoop']_vars

\* C17's case: a Tick was consumed with the Manga list active and its cursor
\* off the initial index.
C17_Witness ==
    /\ pc = "draw"
    /\ event = "Tick"
    /\ active_menu_item = "Manga"
    /\ manga_list_state = Some(1)

\* C18: with the active list's filtered view of length L > 0 and a valid
\* selection i, an Up the loop survives moves the active list's selection to
\* i - 1, or to L - 1 from 0.
C18_CursorUpWraps ==
    [][/\ Consumes("Up")
       /\ InLoop'
       /\ Targets(active_menu_item)
       =>
       LET kind == active_menu_item
           i == Unwrap(ListStateOf(kind))
       IN  (IF kind = "Anime" THEN anime_list_state' ELSE manga_list_state')
             = Some(IF i > 0 THEN i - 1 ELSE FilteredLen(kind) - 1)]_vars

\* The main thread's own state.
mainv == <<pc, raw_mode, overflow_checks, nav, store, event, panic_msg>>

\* C19: a step of the running producer thread changes nothing of the
\* navigation state, the store or the rest of the main thread's state, and a
\* step that changes those changes nothing of the producer's; the queue is
\* all that both change.
C19_ProducerNeverTouchesMainState ==
    [][/\ (producer # "unspawned" /\ prod' # prod) =>
            UNCHANGED <<mainv, received>>
       /\ (producer # "unspawned" /\ <<nav, store>>' # <<nav, store>>) =>
            UNCHANGED prod]_vars

\* C19's case: the producer sent an event while the main loop had moved off
\* its initial navigation state.
C19_Witness ==
    /\ active_menu_item = "Manga"
    /\ Len(chan) = 1
    /\ Len(received) = 1
    /\ producer = "check"

\* The producer thread is scheduled as long as it can take a step.
SpecProducerFair == SpecChan /\ WF_vars(ProducerNext)

\* The producer can send no more: it or the process has ended, or the
\* queue's history is at the bound of the model.
SendingOver == producer = "dead" \/ Stopped \/ Len(sent) = MaxSent

\* C20: an iteration of the producer that ends with the tick interval elapsed
\* sends a Tick, also when it has sent an Input; so an elapsed interval leads
\* to a Tick and a restarted clock for as long as the producer can send.
C20_TickNotStarvedByInput ==
    /\ [][(producer = "check" /\ producer' = "poll" /\ tick_due) =>
            (TickSent /\ ~tick_due')]_vars
    /\ tick_due ~> (~tick_due \/ SendingOver)

\* C20's case: one iteration sent an Input and then a Tick.
C20_Witness ==
    /\ Len(sent) = 2
    /\ sent[1] \in Keys
    /\ sent[2] = "Tick"
    /\ polled = "key"
    /\ producer = "poll"

====
